---- MODULE Spec2Model ----
(***************************************************************************)
(* DreamSpace backend (src/server.ts): the two HTTP handlers               *)
(*   POST /api/start-redesign   and   GET /api/get-redesign                *)
(* in the three variants the file holds (lines 1-64, 66-174, 176-405).     *)
(* One request is followed from its receipt to its response; every await   *)
(* of an external provider is a separate step whose outcome is chosen      *)
(* nondeterministically.                                                   *)
(***************************************************************************)
EXTENDS Integers, Sequences, FiniteSets, TLC

VARIABLES
    variant,        \* which of the three server.ts variants is running
    served,         \* requests answered so far
    pc,             \* where the handler of the current request stands
    req,            \* the current request
    calls,          \* outbound provider calls of the request, in order
    responses,      \* responses sent for the request, in order
    visionRes,      \* outcomes of the vision calls, in order
    genRes,         \* outcome of the image-generation call
    getRes,         \* outcome of the status-fetch call
    aiAnalysis,     \* the handler's local aiAnalysis
    enhancedPrompt  \* the handler's local enhancedPrompt

vars == <<variant, served, pc, req, calls, responses, visionRes, genRes,
          getRes, aiAnalysis, enhancedPrompt>>

\* Number of requests one run of the server is followed for.
MaxRequests == 2

Variants == {"v1", "v2", "v3"}

-----------------------------------------------------------------------------
\* JavaScript values, as far as the handlers look at them.
\*   t       : what kind of value it is
\*   s       : the string itself (t = "string"), or String(value) for an object
\*   a       : the elements of an array (strings)
\*   hasUrl  : the object has a function-valued property url
\*   url     : what url() returns

JSValue(t, s, a, hasUrl, url) ==
    [t |-> t, s |-> s, a |-> a, hasUrl |-> hasUrl, url |-> url]

Undefined == JSValue("undefined", "", <<>>, FALSE, "")
Null      == JSValue("null", "", <<>>, FALSE, "")
Str(s)    == JSValue("string", s, <<>>, FALSE, "")
Arr(a)    == JSValue("array", "", a, FALSE, "")
PlainObject == JSValue("object", "[object Object]", <<>>, FALSE, "")
FileOutput(u) == JSValue("object", u, <<>>, TRUE, u)

\* JavaScript truthiness: !v is the negation of this.
Truthy(v) ==
    CASE v.t = "undefined" -> FALSE
      [] v.t = "null"      -> FALSE
      [] v.t = "string"    -> v.s # ""
      [] OTHER             -> TRUE

\* typeof v
TypeOf(v) ==
    CASE v.t = "undefined" -> "undefined"
      [] v.t = "string"    -> "string"
      [] OTHER             -> "object"

\* Array.prototype.join(",") on an array of strings
RECURSIVE Join(_)
Join(a) ==
    IF a = <<>> THEN ""
    ELSE IF Len(a) = 1 THEN a[1]
    ELSE a[1] \o "," \o Join(Tail(a))

\* String(v)
StringOf(v) ==
    CASE v.t = "undefined" -> "undefined"
      [] v.t = "null"      -> "null"
      [] v.t = "string"    -> v.s
      [] v.t = "array"     -> Join(v.a)
      [] OTHER             -> v.s

\* String.prototype.includes
Includes(s, sub) ==
    \E i \in 1..(Len(s) - Len(sub) + 1) : SubSeq(s, i, i + Len(sub) - 1) = sub

\* a || b on strings
OrElse(s, d) == IF s # "" THEN s ELSE d

\* String.prototype.split(",")[1]: the text between the first and the second
\* comma ("" stands for undefined when there is no comma).
CommaAt(s) == {i \in 1..Len(s) : SubSeq(s, i, i) = ","}
Min(S) == CHOOSE x \in S : \A y \in S : x <= y
SplitComma1(s) ==
    IF CommaAt(s) = {} THEN ""
    ELSE LET i    == Min(CommaAt(s))
             rest == {j \in CommaAt(s) : j > i}
             e    == IF rest = {} THEN Len(s) ELSE Min(rest) - 1
         IN  SubSeq(s, i + 1, e)

-----------------------------------------------------------------------------
\* Errors thrown by the provider clients: the properties the handlers read.
\*   status     : error.status           (0: no such property)
\*   code       : error.code             ("none": no such property,
\*                                        "429": the number 429)
\*   respStatus : error.response.status  (0: no such property)
\*   message    : error.message
Err(status, code, respStatus, message) ==
    [status |-> status, code |-> code, respStatus |-> respStatus,
     message |-> message]

NoErr == Err(0, "none", 0, "")

Errors ==
    { Err(400, "none", 0, "Bad request"),
      Err(0, "none", 400, "Request failed with status code 400"),
      Err(401, "none", 0, "Unauthenticated"),
      Err(403, "none", 0, "Forbidden"),
      Err(404, "none", 0, "Not found"),
      Err(0, "none", 404, ""),
      Err(422, "none", 0, "Invalid input"),
      Err(429, "none", 0, "Too many requests"),
      Err(0, "429", 0, "Resource exhausted"),
      Err(0, "insufficient_quota", 0, "You exceeded your current quota"),
      Err(0, "none", 0, "You exceeded your current quota"),
      Err(500, "none", 0, "Internal server error"),
      Err(0, "none", 0, "fetch failed"),
      Err(0, "none", 0, "") }

\* The TypeError raised when the vision provider's body has no text to read
\* (choices[0] undefined, response.text() throwing).
MalformedBodyError == Err(0, "none", 0, "Cannot read properties of undefined")

\* Outcome of a vision call: text returned, a body the text cannot be read
\* from, or a rejected call.
VisionOutcome(kind, text, err) == [kind |-> kind, text |-> text, err |-> err]

VisionTexts ==
    { "", "a wooden table and two chairs", "Skipped floorboards, grey sofa",
      "shelf, TV unavailable" }

VisionOutcomes ==
    {VisionOutcome("text", t, NoErr) : t \in VisionTexts}
    \cup {VisionOutcome("malformed", "", MalformedBodyError)}
    \cup {VisionOutcome("error", "", e) : e \in Errors}

\* The provider's job (prediction) object.
Job(id, status, output, error) ==
    [id |-> id, status |-> status, output |-> output, error |-> error]

NoJob == Job("", "", "", "")

StartedJobs == {Job("p1", "starting", "", "")}

FetchedJobs ==
    { Job("p1", "processing", "", ""),
      Job("p1", "succeeded", "https://replicate.delivery/out.png", ""),
      Job("p1", "failed", "", "CUDA out of memory") }

\* What replicate.run resolves to.
RunOutputs ==
    { FileOutput("https://replicate.delivery/out.png"),
      JSValue("object", "[object Object]", <<>>, TRUE, "https://replicate.delivery/a.png"),
      Str("https://replicate.delivery/out.png"),
      Str(""),
      Arr(<<>>),
      Arr(<<"https://replicate.delivery/0.png">>),
      Arr(<<"https://replicate.delivery/0.png", "https://replicate.delivery/1.png">>),
      Null, Undefined, PlainObject }

\* Outcome of an image-generation or status-fetch call.
ProviderOutcome(kind, job, output, err) ==
    [kind |-> kind, job |-> job, output |-> output, err |-> err]

CreateOutcomes ==
    {ProviderOutcome("resolved", j, Undefined, NoErr) : j \in StartedJobs}
    \cup {ProviderOutcome("rejected", NoJob, Undefined, e) : e \in Errors}

RunOutcomes ==
    {ProviderOutcome("resolved", NoJob, o, NoErr) : o \in RunOutputs}
    \cup {ProviderOutcome("rejected", NoJob, Undefined, e) : e \in Errors}

GetOutcomes ==
    {ProviderOutcome("resolved", j, Undefined, NoErr) : j \in FetchedJobs}
    \cup {ProviderOutcome("rejected", NoJob, Undefined, e) : e \in Errors}

-----------------------------------------------------------------------------
\* Requests.

\* req.file of the multipart variant: the buffer is kept as its base64 text.
File(present, mimetype, base64) ==
    [present |-> present, mimetype |-> mimetype, base64 |-> base64]

NoFile == File(FALSE, "", "")

Request(endpoint, image, file, userPrompt, id) ==
    [endpoint |-> endpoint, image |-> image, file |-> file,
     userPrompt |-> userPrompt, id |-> id]

NoRequest == Request("none", Undefined, NoFile, Undefined, Undefined)

BodyImages == {Undefined, Null, Str(""), Str("data:image/png;base64,AAA")}
Files      == {NoFile, File(TRUE, "image/png", "AAA")}
Prompts    == {Undefined, Str(""), Str("cozy scandinavian")}
Ids        == {Undefined, Str(""), Str("p1"), Arr(<<"p1", "p2">>), PlainObject}

\* An outbound provider call.
Call(api, model, image, prompt, id) ==
    [api |-> api, model |-> model, image |-> image, prompt |-> prompt, id |-> id]

InteriorDesign ==
    "adirik/interior-design:76604baddc85b1b4616e1c6475eca080da339c8875bd4996705440484a6eac38"

Response(status, body) == [status |-> status, body |-> body]

-----------------------------------------------------------------------------
\* POST /api/start-redesign: the pure parts of the handler.

\* A validation that looks at the image alone (faulty: userPrompt unchecked).
StartInputRejectedImageOnly(v, image, file, userPrompt) ==
    CASE v = "v1" -> FALSE
      [] v = "v2" -> ~Truthy(image)
      [] v = "v3" -> ~file.present

\* The input validation: the condition under which the handler answers 400.
\* Variant 1 has none.
StartInputRejected(v, image, file, userPrompt) ==
    CASE v = "v1" -> FALSE
      [] v = "v2" -> ~Truthy(image) \/ ~Truthy(userPrompt)
      [] v = "v3" -> ~file.present \/ ~Truthy(userPrompt)

\* A handler that sends the 400 without returning (faulty).
StartContinuesNoReturn(v, image, file, userPrompt) == TRUE

\* The `return` in front of the 400 response: the handler goes on exactly when
\* the input was not rejected.
StartContinues(v, image, file, userPrompt) ==
    ~StartInputRejected(v, image, file, userPrompt)

\* imageBase64 of variant 3
ImageBase64(file) == "data:" \o file.mimetype \o ";base64," \o file.base64

\* The image handed to the providers.
ImageArg(v, image, file) == IF v = "v3" THEN Str(ImageBase64(file)) ELSE image

\* The first provider call of a request that passed validation.
FirstCall(v, image, file, userPrompt) ==
    CASE v = "v1" ->
            Call("replicate.predictions.create", InteriorDesign, image,
                 userPrompt, Undefined)
      [] v = "v2" ->
            Call("openai.chat.completions.create", "gpt-4-vision-preview",
                 image, Undefined, Undefined)
      [] v = "v3" ->
            Call("gemini.generateContent", "gemini-1.5-flash",
                 Str(SplitComma1(ImageBase64(file))), Undefined, Undefined)

FallbackCall(file) ==
    Call("gemini.generateContent", "gemini-pro-vision",
         Str(SplitComma1(ImageBase64(file))), Undefined, Undefined)

\* A fallback taken on every rejection (faulty).
GeminiFallsBackAlways(o) == o.kind = "error"

\* Variant 3 tries the second Gemini model exactly when the first call was
\* rejected with status 404.
GeminiFallsBack(o) == o.kind = "error" /\ o.err.status = 404

\* Whether a failed vision step ends the request with the outer catch's 500
\* (variant 2) or is caught by the inner catch (variant 3).
VisionFailurePropagates(v) == v = "v2"

\* The inner catch of variant 3: the sentinel chosen for a failed vision step.
GeminiCatch(err) ==
    IF err.status = 429 \/ err.code = "429" \/ Includes(err.message, "quota")
    THEN "Skipped AI analysis due to quota limits."
    ELSE "AI analysis unavailable."

\* aiAnalysis after the vision step.
AnalysisOf(o) ==
    IF o.kind = "text" THEN OrElse(o.text, "No analysis available")
    ELSE GeminiCatch(o.err)

WithContents(userPrompt, analysis) ==
    "\nA user wants to redesign their room. Their goal is: \""
    \o StringOf(userPrompt)
    \o "\"\n\nHere is an analysis of the room's current contents:\n"
    \o analysis
    \o "\n\nPlease generate a new image that fulfills the user's goal, organizing and restyling the analyzed contents.\n"

WithoutContents(userPrompt) ==
    "Redesign this room according to the following request: \""
    \o StringOf(userPrompt)
    \o "\". Apply the requested changes while maintaining the overall room structure and layout."

\* The test that picks the template in variant 3.
UsesAnalysis(analysis) ==
    /\ analysis # ""
    /\ ~Includes(analysis, "Skipped")
    /\ ~Includes(analysis, "unavailable")

\* STEP 2: the composed prompt.
EnhancedPrompt(v, userPrompt, analysis) ==
    IF v = "v2" \/ UsesAnalysis(analysis)
    THEN WithContents(userPrompt, analysis)
    ELSE WithoutContents(userPrompt)

\* STEP 3: the image-generation call.
GenCall(v, image, file, prompt) ==
    Call(IF v = "v3" THEN "replicate.run" ELSE "replicate.predictions.create",
         InteriorDesign, ImageArg(v, image, file), Str(prompt), Undefined)

\* outputUrl of variant 3
OutputUrl(output) ==
    IF TypeOf(output) = "object" /\ output.t # "null" /\ output.hasUrl
    THEN output.url
    ELSE IF TypeOf(output) = "string" THEN output.s
    ELSE StringOf(output)

\* The 201 response.
StartSuccess(v, o) ==
    IF v = "v3"
    THEN Response(201, [success |-> TRUE, output |-> OutputUrl(o.output),
                        imageUrl |-> OutputUrl(o.output)])
    ELSE Response(201, o.job)

\* The outer catch block.
StartFailure(v, err) ==
    IF v # "v3" THEN Response(500, [error |-> "Failed to start redesign"])
    ELSE IF err.status = 429 \/ err.code = "insufficient_quota" \/ err.code = "429"
    THEN Response(429,
            [error |-> "API quota exceeded. Please check your API billing and quota.",
             details |-> err.message])
    ELSE IF err.status = 404 \/ err.respStatus = 404
    THEN Response(404,
            [error |-> "Replicate model not found. The model may have been removed or the version identifier is incorrect.",
             details |-> OrElse(err.message, "Model not found on Replicate")])
    ELSE IF err.status = 400 \/ err.respStatus = 400
    THEN Response(400, [error |-> "Invalid request parameters",
                        details |-> err.message])
    ELSE Response(500, [error |-> "Failed to start redesign",
                        details |-> OrElse(err.message, "Unknown error occurred")])

StartRejection(v) ==
    Response(400, [error |-> IF v = "v3"
                             THEN "Both image file and userPrompt are required"
                             ELSE "Both image and userPrompt are required"])

-----------------------------------------------------------------------------
\* GET /api/get-redesign: the pure parts of the handler (the same in the
\* three variants).

\* A check without the typeof test (faulty).
IdRejectedUnlessTruthy(id) == ~Truthy(id)

IdRejected(id) == ~Truthy(id) \/ TypeOf(id) # "string"

GetCall(id) == Call("replicate.predictions.get", "", Undefined, Undefined, id)

\* A relay that rewrites the job's status (faulty).
GetSuccessRewritten(o) == Response(200, [o.job EXCEPT !.status = "done"])

GetSuccess(o) == Response(200, o.job)

GetFailure == Response(500, [error |-> "Failed to get redesign status"])

GetRejection == Response(400, [error |-> "Prediction ID is required"])

-----------------------------------------------------------------------------
\* The server.

Init ==
    /\ variant \in Variants
    /\ served = 0
    /\ pc = "idle"
    /\ req = NoRequest
    /\ calls = <<>>
    /\ responses = <<>>
    /\ visionRes = <<>>
    /\ genRes = <<>>
    /\ getRes = <<>>
    /\ aiAnalysis = ""
    /\ enhancedPrompt = ""

\* POST /api/start-redesign arrives: validation, then the handler runs up to
\* its first await.
ReceiveStartRedesign(image, file, userPrompt) ==
    /\ pc = "idle"
    /\ req' = Request("start", image, file, userPrompt, Undefined)
    /\ responses' = IF StartInputRejected(variant, image, file, userPrompt)
                    THEN <<StartRejection(variant)>> ELSE <<>>
    /\ IF StartContinues(variant, image, file, userPrompt)
       THEN /\ calls' = <<FirstCall(variant, image, file, userPrompt)>>
            /\ pc' = IF variant = "v1" THEN "awaitGen" ELSE "awaitVision"
       ELSE /\ calls' = <<>>
            /\ pc' = "done"
    /\ UNCHANGED <<variant, served, visionRes, genRes, getRes, aiAnalysis,
                   enhancedPrompt>>

\* The rest of STEP 1 and STEP 2, up to the await of the image-generation call.
ComposeAndGenerate(analysis) ==
    /\ aiAnalysis' = analysis
    /\ enhancedPrompt' = EnhancedPrompt(variant, req.userPrompt, analysis)
    /\ calls' = Append(calls, GenCall(variant, req.image, req.file,
                                      EnhancedPrompt(variant, req.userPrompt, analysis)))
    /\ pc' = "awaitGen"
    /\ UNCHANGED responses

\* The vision call (OpenAI in variant 2, gemini-1.5-flash in variant 3) settles.
VisionReturns(o) ==
    /\ pc = "awaitVision"
    /\ visionRes' = Append(visionRes, o)
    /\ IF o.kind # "text" /\ VisionFailurePropagates(variant)
       THEN /\ responses' = Append(responses, StartFailure(variant, o.err))
            /\ pc' = "done"
            /\ UNCHANGED <<calls, aiAnalysis, enhancedPrompt>>
       ELSE IF variant = "v3" /\ GeminiFallsBack(o)
       THEN /\ calls' = Append(calls, FallbackCall(req.file))
            /\ pc' = "awaitFallback"
            /\ UNCHANGED <<responses, aiAnalysis, enhancedPrompt>>
       ELSE ComposeAndGenerate(AnalysisOf(o))
    /\ UNCHANGED <<variant, served, req, genRes, getRes>>

\* The gemini-pro-vision call of variant 3 settles.
FallbackReturns(o) ==
    /\ pc = "awaitFallback"
    /\ visionRes' = Append(visionRes, o)
    /\ ComposeAndGenerate(AnalysisOf(o))
    /\ UNCHANGED <<variant, served, req, genRes, getRes>>

\* The image-generation call settles: STEP 3's response or the outer catch.
GenReturns(o) ==
    /\ pc = "awaitGen"
    /\ genRes' = <<o>>
    /\ responses' = Append(responses,
                           IF o.kind = "resolved" THEN StartSuccess(variant, o)
                           ELSE StartFailure(variant, o.err))
    /\ pc' = "done"
    /\ UNCHANGED <<variant, served, req, calls, visionRes, getRes, aiAnalysis,
                   enhancedPrompt>>

\* GET /api/get-redesign arrives.
ReceiveGetRedesign(id) ==
    /\ pc = "idle"
    /\ req' = Request("get", Undefined, NoFile, Undefined, id)
    /\ IF IdRejected(id)
       THEN /\ responses' = <<GetRejection>>
            /\ calls' = <<>>
            /\ pc' = "done"
       ELSE /\ responses' = <<>>
            /\ calls' = <<GetCall(id)>>
            /\ pc' = "awaitGet"
    /\ UNCHANGED <<variant, served, visionRes, genRes, getRes, aiAnalysis,
                   enhancedPrompt>>

\* replicate.predictions.get settles.
GetReturns(o) ==
    /\ pc = "awaitGet"
    /\ getRes' = <<o>>
    /\ responses' = Append(responses,
                           IF o.kind = "resolved" THEN GetSuccess(o)
                           ELSE GetFailure)
    /\ pc' = "done"
    /\ UNCHANGED <<variant, served, req, calls, visionRes, genRes, aiAnalysis,
                   enhancedPrompt>>

\* The request is over; the server takes the next one. Nothing of a request
\* outlives it.
NextRequest ==
    /\ pc = "done"
    /\ served + 1 < MaxRequests
    /\ served' = served + 1
    /\ pc' = "idle"
    /\ req' = NoRequest
    /\ calls' = <<>>
    /\ responses' = <<>>
    /\ visionRes' = <<>>
    /\ genRes' = <<>>
    /\ getRes' = <<>>
    /\ aiAnalysis' = ""
    /\ enhancedPrompt' = ""
    /\ UNCHANGED variant

StartInputs ==
    IF variant = "v3"
    THEN {<<Undefined, f, p>> : f \in Files, p \in Prompts}
    ELSE {<<i, NoFile, p>> : i \in BodyImages, p \in Prompts}

GenOutcomes == IF variant = "v3" THEN RunOutcomes ELSE CreateOutcomes

Next ==
    \/ \E in \in StartInputs : ReceiveStartRedesign(in[1], in[2], in[3])
    \/ \E o \in VisionOutcomes : VisionReturns(o)
    \/ \E o \in VisionOutcomes : FallbackReturns(o)
    \/ \E o \in GenOutcomes : GenReturns(o)
    \/ \E id \in Ids : ReceiveGetRedesign(id)
    \/ \E o \in GetOutcomes : GetReturns(o)
    \/ NextRequest

Spec == Init /\ [][Next]_vars

-----------------------------------------------------------------------------
\* Vocabulary of the properties.

StartReq == req.endpoint = "start"
GetReq   == req.endpoint = "get"

VisionApis == {"openai.chat.completions.create", "gemini.generateContent"}
GenApis    == {"replicate.predictions.create", "replicate.run"}
GetApis    == {"replicate.predictions.get"}

CallsTo(apis) == SelectSeq(calls, LAMBDA c : c.api \in apis)

\* The request carries no image: the field is absent, null or empty.
ImageMissing ==
    IF variant = "v3" THEN ~req.file.present
    ELSE req.image.t \in {"undefined", "null"}
         \/ (req.image.t = "string" /\ req.image.s = "")

PromptMissing ==
    req.userPrompt.t = "undefined"
    \/ (req.userPrompt.t = "string" /\ req.userPrompt.s = "")

\* The id parameter is missing, empty or not a single string.
IdMissing == req.id.t # "string" \/ req.id.s = ""

LastVision == visionRes[Len(visionRes)]

\* The vision step ended without a scene description: the call was rejected,
\* its body could not be read, or its text was empty.
VisionFailed ==
    visionRes # <<>> /\ (LastVision.kind # "text" \/ LastVision.text = "")

RealDescription ==
    visionRes # <<>> /\ LastVision.kind = "text" /\ LastVision.text # ""

GenResolved == genRes # <<>> /\ genRes[1].kind = "resolved"
GenRejected == genRes # <<>> /\ genRes[1].kind = "rejected"

HasContentsClause(p) == Includes(p, "analysis of the room's current contents")

-----------------------------------------------------------------------------
\* C1: a start-redesign request without an image is answered 400 and issues
\* no provider call, in every variant. Variant 1 validates nothing and calls
\* replicate.predictions.create with the missing image.
C1_MissingImageRejected ==
    (StartReq /\ ImageMissing) =>
        /\ pc = "done"
        /\ calls = <<>>
        /\ Len(responses) = 1
        /\ responses[1].status = 400

\* C2: a get-redesign request whose id is missing, empty or not a single
\* string is answered 400 and replicate.predictions.get is never called.
C2_MissingIdRejected ==
    (GetReq /\ IdMissing) =>
        /\ pc = "done"
        /\ calls = <<>>
        /\ Len(responses) = 1
        /\ responses[1].status = 400

C2_Witness ==
    /\ GetReq
    /\ req.id.t = "array"
    /\ pc = "done"
    /\ responses = <<GetRejection>>

\* C3: with image and prompt present, a failed vision step never becomes the
\* client's error: the image-generation call is still issued and alone
\* decides the response. In variant 2 the outer catch answers 500.
C3_VisionFailureNeverSurfaces ==
    (StartReq /\ ~ImageMissing /\ ~PromptMissing /\ VisionFailed /\ pc = "done") =>
        /\ Len(CallsTo(GenApis)) = 1
        /\ Len(genRes) = 1
        /\ Len(responses) = 1
        /\ (responses[1].status = 201) <=> GenResolved

\* C4: a rejected image-generation call with status 429, 404, 422 or 400 is
\* answered with that status, any other rejection with 500, and the body is
\* {error, details}.
C4_GenErrorMapping ==
    (StartReq /\ pc = "done" /\ GenRejected) =>
        /\ Len(responses) = 1
        /\ responses[1].status =
              (IF genRes[1].err.status \in {429, 404, 422, 400}
               THEN genRes[1].err.status ELSE 500)
        /\ DOMAIN responses[1].body = {"error", "details"}

\* C5: in wait mode, whatever replicate.run resolves to, the 201 body has
\* success = true, output = imageUrl and imageUrl a non-empty string, url()
\* being preferred to the string itself and to String(output).
C5_WaitModeImageUrl ==
    (variant = "v3" /\ StartReq /\ pc = "done" /\ GenResolved) =>
        /\ Len(responses) = 1
        /\ responses[1].status = 201
        /\ responses[1].body.success = TRUE
        /\ responses[1].body.output = responses[1].body.imageUrl
        /\ responses[1].body.imageUrl # ""
        /\ genRes[1].output.hasUrl =>
              responses[1].body.imageUrl = genRes[1].output.url

C7_ContentsClauseIffRealDescription ==
    (StartReq /\ enhancedPrompt # "") =>
        /\ HasContentsClause(enhancedPrompt) <=> RealDescription
        /\ ~RealDescription =>
              /\ Includes(enhancedPrompt, StringOf(req.userPrompt))
              /\ Includes(enhancedPrompt, "maintaining the overall room structure and layout")

\* C8: for a non-empty string id exactly one replicate.predictions.get(id) is
\* issued, with the id unchanged; a resolved call is answered 200 with the
\* provider's job object verbatim, a rejected one 500.
C8_StatusRelay ==
    (GetReq /\ ~IdMissing) =>
        /\ Len(calls) = 1
        /\ calls[1].api = "replicate.predictions.get"
        /\ calls[1].id = req.id
        /\ pc # "done" => responses = <<>>
        /\ pc = "done" =>
              /\ Len(getRes) = 1
              /\ Len(responses) = 1
              /\ getRes[1].kind = "resolved" =>
                    /\ responses[1].status = 200
                    /\ responses[1].body = getRes[1].job
              /\ getRes[1].kind = "rejected" => responses[1].status = 500

C8_Witness ==
    /\ GetReq
    /\ pc = "done"
    /\ Len(getRes) = 1
    /\ getRes[1].kind = "resolved"
    /\ getRes[1].job.status = "failed"
    /\ Len(responses) = 1
    /\ responses[1].status = 200

\* C9 (as stated): within one request at most one vision call, one
\* image-generation call and one status-fetch call are issued.
C9_AtMostOneCallEach ==
    /\ Len(CallsTo(VisionApis)) <= 1
    /\ Len(CallsTo(GenApis)) <= 1
    /\ Len(CallsTo(GetApis)) <= 1

\* C9 (amended): at most one image-generation call and one status-fetch call;
\* at most two vision calls, the second only in variant 3, to
\* gemini-pro-vision, after gemini-1.5-flash was rejected with status 404.
C9_NoRetryButModelFallback ==
    /\ Len(CallsTo(GenApis)) <= 1
    /\ Len(CallsTo(GetApis)) <= 1
    /\ Len(CallsTo(VisionApis)) <= 2
    /\ Len(CallsTo(VisionApis)) = 2 =>
          /\ variant = "v3"
          /\ CallsTo(VisionApis)[1].model = "gemini-1.5-flash"
          /\ CallsTo(VisionApis)[2].model = "gemini-pro-vision"
          /\ visionRes # <<>>
          /\ visionRes[1].kind = "error"
          /\ visionRes[1].err.status = 404

C9_Witness ==
    /\ Len(CallsTo(VisionApis)) = 2
    /\ Len(CallsTo(GenApis)) = 1
    /\ pc = "done"

\* The state part of C10: one response, sent when the handler ends: a 201 only after the image-generation call resolved,
\* otherwise a 4xx/5xx with an error body; once a response is sent the
\* request issues no provider call and sends nothing more.
C10_OneResponse ==
    StartReq =>
        /\ Len(responses) <= 1
        /\ (pc = "done") <=> (Len(responses) = 1)
        /\ Len(responses) = 1 =>
              /\ (responses[1].status = 201) <=> GenResolved
              /\ responses[1].status # 201 =>
                    /\ responses[1].status \in 400..599
                    /\ "error" \in DOMAIN responses[1].body
                    /\ responses[1].body.error # ""

C10_NothingAfterResponse ==
    (StartReq /\ responses # <<>> /\ served' = served) =>
        (calls' = calls /\ responses' = responses)

\* C10: exactly one response per start-redesign request, a 201 only after the
\* image-generation call resolved, and no call or response after it.
C10_SingleResponse == []C10_OneResponse /\ [][C10_NothingAfterResponse]_vars

C10_Witness ==
    /\ variant = "v3"
    /\ StartReq
    /\ pc = "done"
    /\ VisionFailed
    /\ GenResolved
    /\ Len(responses) = 1
    /\ responses[1].status = 201

=============================================================================
